---- MODULE Spec2Model ----
(***************************************************************************)
(* A model of scripts/generate_pr.py: one run of main() is a straight-line *)
(* sequence of git invocations, a template read, the assembly of the       *)
(* prompt, the write of pr_prompt.txt and the confirmation line.  Runs may *)
(* follow one another; only pr_prompt.txt survives from run to run.        *)
(*                                                                         *)
(* Text is a sequence of tokens.  Every token that can be stripped, split  *)
(* or counted (whitespace, the characters of a diff, "-" and " " of a log  *)
(* line) is one character; a literal line of the prompt, a file name, a    *)
(* branch name or a commit subject is one opaque token that holds no       *)
(* whitespace at its ends and no line break.  The platform is POSIX: text  *)
(* is written with "\n" unchanged and standard output takes the line.      *)
(***************************************************************************)
EXTENDS Integers, Sequences, FiniteSets, TLC

VARIABLES pc, env, base, head, commits_txt, files_txt, files, idx, out,
          patches_txt, template, prompt, fileOut, printed,
          calls, lastRes, lastRet, wrote, fault, fileAtStart, prevDone

vars == <<pc, env, base, head, commits_txt, files_txt, files, idx, out,
          patches_txt, template, prompt, fileOut, printed,
          calls, lastRes, lastRet, wrote, fault, fileAtStart, prevDone>>

----------------------------------------------------------------------------
(* Program constants and the bounds of the model. *)

FileLimit == 10

DiffLimit == 1500

\* Listings hold up to FileLimit + ExtraFiles names.
ExtraFiles == 2

\* A long diff holds DiffLimit + k characters, k in 1..ExtraChars.
ExtraChars == 2

\* A failed write leaves up to MaxPartial characters of the prompt behind.
MaxPartial == 1

----------------------------------------------------------------------------
(* Text. *)

NL == "\n"

\* The whitespace str.strip() removes (the members the model's texts use).
WS == {" ", "\n", "\t", "\r"}

Min(a, b) == IF a < b THEN a ELSE b

Take(s, n) == SubSeq(s, 1, Min(n, Len(s)))

RECURSIVE lstrip(_)
lstrip(s) == IF s = <<>> \/ Head(s) \notin WS THEN s ELSE lstrip(Tail(s))

RECURSIVE rstripLen(_, _)
rstripLen(s, n) == IF n = 0 \/ s[n] \notin WS THEN n ELSE rstripLen(s, n - 1)

rstrip(s) == SubSeq(s, 1, rstripLen(s, Len(s)))

strip(s) == rstrip(lstrip(s))

\* str.splitlines(): breaks at "\n", "\r" and "\r\n"; a final line break
\* opens no empty last line.
RECURSIVE splitAcc(_, _, _)
splitAcc(s, cur, acc) ==
    IF s = <<>> THEN (IF cur = <<>> THEN acc ELSE Append(acc, cur))
    ELSE IF Head(s) = "\r" /\ Len(s) > 1 /\ s[2] = "\n"
         THEN splitAcc(Tail(Tail(s)), <<>>, Append(acc, cur))
    ELSE IF Head(s) \in {"\n", "\r"}
         THEN splitAcc(Tail(s), <<>>, Append(acc, cur))
    ELSE splitAcc(Tail(s), Append(cur, Head(s)), acc)

splitlines(s) == splitAcc(s, <<>>, <<>>)

RECURSIVE Join(_, _)
Join(sep, parts) ==
    IF parts = <<>> THEN <<>>
    ELSE IF Len(parts) = 1 THEN parts[1]
    ELSE parts[1] \o sep \o Join(sep, Tail(parts))

\* Text mode with universal newlines, as read_text() opens the file:
\* "\r\n" and a lone "\r" are read as "\n".
RECURSIVE Decode(_)
Decode(b) ==
    IF b = <<>> THEN <<>>
    ELSE IF Head(b) = "\r" /\ Len(b) > 1 /\ b[2] = "\n"
         THEN <<NL>> \o Decode(Tail(Tail(b)))
    ELSE IF Head(b) = "\r" THEN <<NL>> \o Decode(Tail(b))
    ELSE <<Head(b)>> \o Decode(Tail(b))

\* A byte no text in the locale's encoding holds.
BadByte == "\\xff"

----------------------------------------------------------------------------
(* The environment of one run: the git tool and repository, the command    *)
(* line, the two template files, the fate of the write.                    *)

Alpha == <<"a", "b", "c", "d", "e", "f", "g", "h", "i", "j", "k", "l", "m",
           "n", "o", "p", "q", "r", "s", "t", "u", "v", "w", "x", "y", "z">>

FileName(i) == "f" \o ToString(i) \o ".py"

\* kind "s": a short diff, "e": no difference, "L": a diff longer than
\* DiffLimit by extra characters.
File(i, kind, extra) == [name |-> FileName(i), kind |-> kind, n |-> i, extra |-> extra]

KindShort(n, i) == "s"

KindGaps(n, i) == IF i % 3 = 1 THEN "e" ELSE "s"

KindLong(n, i) == IF i \in {1, n} THEN "L" ELSE "s"

ListingLengths == {0, 1, 2, FileLimit} \cup {FileLimit + k : k \in 1..ExtraFiles}

Listings ==
    {[i \in 1..n |-> File(i, KindShort(n, i), 0)] : n \in ListingLengths}
    \cup {[i \in 1..n |-> File(i, KindGaps(n, i), 0)] : n \in ListingLengths}
    \cup {[i \in 1..n |-> File(i, KindLong(n, i), x)] :
             n \in {1, FileLimit + 1}, x \in 1..ExtraChars}

Absent == [exists |-> FALSE, readable |-> FALSE, bytes |-> <<>>]

Present(b) == [exists |-> TRUE, readable |-> TRUE, bytes |-> b]

Unreadable == [exists |-> TRUE, readable |-> FALSE, bytes |-> <<>>]

TplA == <<"# Problema", NL, NL, "## Solucao", NL>>

TplB == <<"## Resumo", NL>>

TplCRLF == <<"# Titulo", "\r", NL, "texto", "\r", NL>>

TplBad == <<"# Titulo", BadByte, NL>>

\* [first, second]: .pull_request_template.md, .github/pull_request_template.md
TemplateStates ==
    { <<Absent, Absent>>, <<Present(TplA), Absent>>, <<Absent, Present(TplB)>>,
      <<Present(TplA), Present(TplB)>>, <<Present(<<>>), Present(TplB)>>,
      <<Present(TplCRLF), Absent>>, <<Unreadable, Present(TplB)>>,
      <<Absent, Present(TplBad)>>, <<Absent, Unreadable>> }

CommitLists ==
    { <<>>, <<<<"Fix bug">>>>, <<<<"Fix bug">>, <<"Add test">>>>,
      <<<<"Fix bug">>, <<"Fix bug">>>>, <<<<"Add test">>, <<>>>>,
      <<<<>>, <<"Add test">>>>, <<<<>>>> }

DefaultEnv ==
    [ git     |-> "ok",
      argv    |-> <<>>,
      dir     |-> "flutter_ort_plugin",
      branch  |-> "feature-x",
      commits |-> <<<<"Fix bug">>, <<"Add test">>>>,
      listing |-> <<File(1, "s", 0)>>,
      tpl     |-> <<Absent, Absent>>,
      wr      |-> "ok" ]

\* One aspect of the default run varied at a time.
Envs ==
    {[DefaultEnv EXCEPT !.git = g] : g \in {"ok", "absent", "noRepo", "noCommits"}}
    \cup {[DefaultEnv EXCEPT !.argv = <<"dev">>]}
    \cup {[DefaultEnv EXCEPT !.commits = c] : c \in CommitLists}
    \cup {[DefaultEnv EXCEPT !.listing = l] : l \in Listings}
    \cup {[DefaultEnv EXCEPT !.tpl = t] : t \in TemplateStates}
    \cup {[DefaultEnv EXCEPT !.wr = w] : w \in {"openFails", "writeFails"}}

\* What "git diff base..head -- f" prints for a changed file.
DiffText(f) ==
    CASE f.kind = "e" -> <<>>
      [] f.kind = "s" -> <<"@", "@", NL, "+", Alpha[f.n], NL>>
      [] f.kind = "L" -> [k \in 1..(DiffLimit + f.extra) |->
                             IF k % 50 = 0 THEN NL ELSE Alpha[(k % 26) + 1]] \o <<NL>>

\* "git log --pretty=format:- %s" prints one "- <subject>" per commit, a line
\* break between two of them and none after the last.
LogText(cs) == Join(<<NL>>, [k \in 1..Len(cs) |-> <<"-", " ">> \o cs[k]])

NameStatusText(l) == Join(<<>>, [k \in 1..Len(l) |-> <<"M", "\t", l[k].name, NL>>])

NameOnlyText(l) == Join(<<>>, [k \in 1..Len(l) |-> <<l[k].name, NL>>])

LookupDiff(l, path) ==
    IF \E k \in 1..Len(l) : <<l[k].name>> = path
    THEN DiffText(l[CHOOSE k \in 1..Len(l) : <<l[k].name>> = path])
    ELSE <<>>

Result(started, rc, stdout, stderr) ==
    [started |-> started, rc |-> rc, stdout |-> stdout, stderr |-> stderr]

Fatal == <<"fatal: not a git repository", NL>>

\* The completed process of one command line, or none when git is not on
\* the path.
Git(e, cmd) ==
    CASE e.git = "absent" -> Result(FALSE, 0, <<>>, <<>>)
      [] e.git = "noRepo" -> Result(TRUE, 128, <<>>, Fatal)
      [] e.git = "noCommits" ->
            IF cmd[1] = "rev-parse"
            THEN Result(TRUE, 128, <<"HEAD", NL>>, <<"fatal: ambiguous argument 'HEAD'", NL>>)
            ELSE Result(TRUE, 128, <<>>, <<"fatal: bad revision", NL>>)
      [] e.git = "ok" ->
            CASE cmd[1] = "rev-parse"   -> Result(TRUE, 0, <<e.branch, NL>>, <<>>)
              [] cmd[1] = "log"         -> Result(TRUE, 0, LogText(e.commits), <<>>)
              [] cmd[1] = "name-status" -> Result(TRUE, 0, NameStatusText(e.listing), <<>>)
              [] cmd[1] = "name-only"   -> Result(TRUE, 0, NameOnlyText(e.listing), <<>>)
              [] cmd[1] = "diff"        -> Result(TRUE, 0, LookupDiff(e.listing, cmd[2]), <<>>)

----------------------------------------------------------------------------
(* The functions of the script. *)

Raised == [raised |-> TRUE, value |-> <<>>]

Returned(v) == [raised |-> FALSE, value |-> v]

\* A run() that reads the exit status and gives the empty string on failure.
runChecked(res) ==
    IF ~res.started THEN Raised
    ELSE IF res.rc # 0 THEN Returned(<<>>)
    ELSE Returned(strip(res.stdout))

\* A run() that leaves the standard output as it is.
runUnstripped(res) == IF ~res.started THEN Raised ELSE Returned(res.stdout)

\* run(cmd): the stripped standard output of the completed process; the
\* exit status and standard error are not read.  subprocess.run raises
\* when the program cannot be started.
run(res) == IF ~res.started THEN Raised ELSE Returned(strip(res.stdout))

\* The code fence (three backticks) and the backtick of the prompt, as tokens.
Fence == "<fence>"

FenceDiff == "<fence>diff"

Tick == "<tick>"

\* A block with the whole diff.
BlockWhole(f, p) ==
    <<NL, "### ">> \o f \o <<NL, FenceDiff, NL>> \o p \o <<NL, Fence>>

\* One block of patch_summary's list.
Block(f, p) ==
    <<NL, "### ">> \o f \o <<NL, FenceDiff, NL>> \o Take(p, DiffLimit) \o <<NL, Fence>>

Fallback == <<"# Problema", NL, NL, "## Solucao", NL>>

read_text(file) ==
    IF ~file.readable \/ (\E k \in 1..Len(file.bytes) : file.bytes[k] = BadByte)
    THEN Raised
    ELSE Returned(Decode(file.bytes))

\* A read_template() that looks into .github first.
read_templateGithubFirst(tpl) ==
    IF tpl[2].exists THEN read_text(tpl[2])
    ELSE IF tpl[1].exists THEN read_text(tpl[1])
    ELSE Returned(Fallback)

\* A read_template() that falls back when the file cannot be read.
read_templateCaught(tpl) ==
    LET r == IF tpl[1].exists THEN read_text(tpl[1])
             ELSE IF tpl[2].exists THEN read_text(tpl[2])
             ELSE Returned(Fallback)
    IN  IF r.raised THEN Returned(Fallback) ELSE r

read_template(tpl) ==
    IF tpl[1].exists THEN read_text(tpl[1])
    ELSE IF tpl[2].exists THEN read_text(tpl[2])
    ELSE Returned(Fallback)

Lit0 == <<NL, "Voce e um engenheiro experiente escrevendo a descricao de um Pull Request.",
          NL, NL, "Preencha este **template de PR em portugues**:", NL, NL, "---", NL, NL>>

Lit1 == <<NL, NL, "---", NL, NL, "Contexto:", NL, "- Repositorio local:", " ">>

Lit2 == <<NL, "- Branch:", " ", Tick>>

Lit3 == <<Tick, " ", "<-", " ", Tick>>

Lit4 == <<Tick, NL, NL, "Commits:", NL>>

Lit5 == <<NL, NL, "Arquivos alterados:", NL>>

Lit6 == <<NL, NL, "Patches (exemplo):", NL>>

Lit7 == <<NL, NL, "---", NL, NL,
          "**Responda com o template preenchido**, sem comentarios extras.", NL>>

\* A prompt with the file list before the commit list.
PromptFilesFirst(tp, dir, hd, bs, cm, fl, pt) ==
    strip(Lit0 \o tp \o Lit1 \o <<dir>> \o Lit2 \o hd \o Lit3 \o bs \o Lit4
          \o fl \o Lit5 \o cm \o Lit6 \o pt \o Lit7)

\* The f-string of main(), stripped.
Prompt(tp, dir, hd, bs, cm, fl, pt) ==
    strip(Lit0 \o tp \o Lit1 \o <<dir>> \o Lit2 \o hd \o Lit3 \o bs \o Lit4
          \o cm \o Lit5 \o fl \o Lit6 \o pt \o Lit7)

NoFile == [exists |-> FALSE, content |-> <<>>]

FileWith(c) == [exists |-> TRUE, content |-> c]

NoResult == Result(FALSE, 0, <<>>, <<>>)

----------------------------------------------------------------------------
(* The run. *)

Init ==
    /\ pc = "idle"
    /\ env = DefaultEnv
    /\ base = <<>>
    /\ head = <<>>
    /\ commits_txt = <<>>
    /\ files_txt = <<>>
    /\ files = <<>>
    /\ idx = 0
    /\ out = <<>>
    /\ patches_txt = <<>>
    /\ template = <<>>
    /\ prompt = <<>>
    /\ fileOut \in {NoFile, FileWith(<<"old", NL, "content">>)}
    /\ printed = 0
    /\ calls = <<>>
    /\ lastRes = NoResult
    /\ lastRet = <<>>
    /\ wrote = FALSE
    /\ fault = "none"
    /\ fileAtStart = fileOut
    /\ prevDone = FALSE

\* The process starts: main() reads the command line.
Start ==
    /\ pc \in {"idle", "done", "failed"}
    /\ \E e \in Envs :
          /\ env' = e
          /\ base' = IF Len(e.argv) > 0 THEN <<e.argv[1]>> ELSE <<"main">>
    /\ pc' = "rev_parse"
    /\ head' = <<>>
    /\ commits_txt' = <<>>
    /\ files_txt' = <<>>
    /\ files' = <<>>
    /\ idx' = 0
    /\ out' = <<>>
    /\ patches_txt' = <<>>
    /\ template' = <<>>
    /\ prompt' = <<>>
    /\ printed' = 0
    /\ calls' = <<>>
    /\ lastRes' = NoResult
    /\ lastRet' = <<>>
    /\ wrote' = FALSE
    /\ fault' = "none"
    /\ fileAtStart' = fileOut
    /\ prevDone' = (pc = "done")
    /\ UNCHANGED fileOut

\* One call of run(): the command is recorded, the process completes (or
\* cannot be started) and line next is reached unless run() raised.
Invoke(cmd, next) ==
    LET res == Git(env, cmd)
        r   == run(res)
    IN  /\ calls' = Append(calls, cmd)
        /\ lastRes' = res
        /\ lastRet' = r.value
        /\ fault' = IF r.raised THEN "spawn" ELSE fault
        /\ pc' = IF r.raised THEN "failed" ELSE next

Returns(cmd) == run(Git(env, cmd)).value

CurrentBranch ==
    /\ pc = "rev_parse"
    /\ Invoke(<<"rev-parse">>, "log")
    /\ head' = Returns(<<"rev-parse">>)
    /\ UNCHANGED <<env, base, commits_txt, files_txt, files, idx, out, patches_txt,
                   template, prompt, fileOut, printed, wrote, fileAtStart, prevDone>>

Commits ==
    /\ pc = "log"
    /\ Invoke(<<"log">>, "name_status")
    /\ commits_txt' = Returns(<<"log">>)
    /\ UNCHANGED <<env, base, head, files_txt, files, idx, out, patches_txt,
                   template, prompt, fileOut, printed, wrote, fileAtStart, prevDone>>

ChangedFiles ==
    /\ pc = "name_status"
    /\ Invoke(<<"name-status">>, "name_only")
    /\ files_txt' = Returns(<<"name-status">>)
    /\ UNCHANGED <<env, base, head, commits_txt, files, idx, out, patches_txt,
                   template, prompt, fileOut, printed, wrote, fileAtStart, prevDone>>

\* patch_summary, line 30: the listing, split into lines.
PatchList ==
    /\ pc = "name_only"
    /\ Invoke(<<"name-only">>, "diff")
    /\ files' = splitlines(Returns(<<"name-only">>))
    /\ UNCHANGED <<env, base, head, commits_txt, files_txt, idx, out, patches_txt,
                   template, prompt, fileOut, printed, wrote, fileAtStart, prevDone>>

\* A loop over every listed file.
SelectedAll(fs) == fs

\* A loop over the first FileLimit files that have a diff.
SelectedWithDiff(fs) ==
    Take(SelectSeq(fs, LAMBDA f : strip(LookupDiff(env.listing, f)) # <<>>), FileLimit)

\* The files the loop of patch_summary visits.
Selected(fs) == Take(fs, FileLimit)

\* patch_summary, lines 31-34: one turn of the loop.
PatchFile ==
    /\ pc = "diff"
    /\ idx < Len(Selected(files))
    /\ LET f == Selected(files)[idx + 1]
           p == Returns(<<"diff", f>>)
       IN  /\ Invoke(<<"diff", f>>, "diff")
           /\ out' = IF p # <<>> THEN Append(out, Block(f, p)) ELSE out
    /\ idx' = idx + 1
    /\ UNCHANGED <<env, base, head, commits_txt, files_txt, files, patches_txt,
                   template, prompt, fileOut, printed, wrote, fileAtStart, prevDone>>

\* patch_summary, line 35: the loop is over.
PatchReturn ==
    /\ pc = "diff"
    /\ idx >= Len(Selected(files))
    /\ patches_txt' = Join(<<NL>>, out)
    /\ pc' = "template"
    /\ UNCHANGED <<env, base, head, commits_txt, files_txt, files, idx, out,
                   template, prompt, fileOut, printed, calls, lastRes, lastRet,
                   wrote, fileAtStart, prevDone, fault>>

ReadTemplate ==
    /\ pc = "template"
    /\ LET r == read_template(env.tpl)
       IN  /\ template' = r.value
           /\ fault' = IF r.raised THEN "read" ELSE fault
           /\ pc' = IF r.raised THEN "failed" ELSE "assemble"
    /\ UNCHANGED <<env, base, head, commits_txt, files_txt, files, idx, out,
                   patches_txt, prompt, fileOut, printed, calls, lastRes, lastRet,
                   wrote, fileAtStart, prevDone>>

Assemble ==
    /\ pc = "assemble"
    /\ prompt' = Prompt(template, env.dir, head, base, commits_txt, files_txt, patches_txt)
    /\ pc' = "write"
    /\ UNCHANGED <<env, base, head, commits_txt, files_txt, files, idx, out,
                   patches_txt, template, fileOut, printed, calls, lastRes, lastRet,
                   wrote, fileAtStart, prevDone, fault>>

\* A write_text() that opens the file for appending.
write_textAppend(old, text) == FileWith(old.content \o text)

\* write_text: the file is opened for writing (emptied), the text written.
write_text(old, text) == FileWith(text)

WriteOk ==
    /\ pc = "write"
    /\ env.wr = "ok"
    /\ fileOut' = write_text(fileOut, prompt)
    /\ wrote' = TRUE
    /\ pc' = "print"
    /\ UNCHANGED <<env, base, head, commits_txt, files_txt, files, idx, out,
                   patches_txt, template, prompt, printed, calls, lastRes, lastRet,
                   fileAtStart, prevDone, fault>>

\* The file cannot be opened (no permission, no directory): nothing changes.
WriteOpenFails ==
    /\ pc = "write"
    /\ env.wr = "openFails"
    /\ pc' = "failed"
    /\ fault' = "write"
    /\ UNCHANGED <<env, base, head, commits_txt, files_txt, files, idx, out,
                   patches_txt, template, prompt, fileOut, printed, calls, lastRes,
                   lastRet, wrote, fileAtStart, prevDone>>

\* The file is opened and emptied, and the write fails part way.
WriteFails ==
    /\ pc = "write"
    /\ env.wr = "writeFails"
    /\ \E n \in 0..MaxPartial : fileOut' = FileWith(Take(prompt, n))
    /\ pc' = "failed"
    /\ fault' = "write"
    /\ UNCHANGED <<env, base, head, commits_txt, files_txt, files, idx, out,
                   patches_txt, template, prompt, printed, calls, lastRes,
                   lastRet, wrote, fileAtStart, prevDone>>

Confirm ==
    /\ pc = "print"
    /\ printed' = printed + 1
    /\ pc' = "done"
    /\ UNCHANGED <<env, base, head, commits_txt, files_txt, files, idx, out,
                   patches_txt, template, prompt, fileOut, calls, lastRes,
                   lastRet, wrote, fileAtStart, prevDone, fault>>

Next ==
    \/ Start
    \/ CurrentBranch
    \/ Commits
    \/ ChangedFiles
    \/ PatchList
    \/ PatchFile
    \/ PatchReturn
    \/ ReadTemplate
    \/ Assemble
    \/ WriteOk
    \/ WriteOpenFails
    \/ WriteFails
    \/ Confirm

Spec == Init /\ [][Next]_vars

\* A step of a run that has begun.
Step ==
    \/ CurrentBranch
    \/ Commits
    \/ ChangedFiles
    \/ PatchList
    \/ PatchFile
    \/ PatchReturn
    \/ ReadTemplate
    \/ Assemble
    \/ WriteOk
    \/ WriteOpenFails
    \/ WriteFails
    \/ Confirm

\* The script is run once.
StartOnce == pc = "idle" /\ Start

NextOnce == StartOnce \/ Step

\* One run in which each command returns and each file operation completes:
\* the run, once begun, is not held up for ever.
FairSpec == Init /\ [][NextOnce]_vars /\ WF_vars(Step)

----------------------------------------------------------------------------
(* What the claims speak of. *)

\* patch_summary has returned.
AfterPatch == pc \in {"template", "assemble", "write", "print", "done"}

\* The changed files git lists in this run (none when git fails).
Listed == IF env.git = "ok" THEN env.listing ELSE <<>>

\* A text without its leading and trailing whitespace, by definition: what
\* lies between the first and the last character that is no whitespace.
Stripped(s) ==
    LET keep == {k \in 1..Len(s) : s[k] \notin WS}
    IN  IF keep = {} THEN <<>>
        ELSE SubSeq(s, CHOOSE k \in keep : \A j \in 1..(k - 1) : s[j] \in WS,
                       CHOOSE k \in keep : \A j \in (k + 1)..Len(s) : s[j] \in WS)

HasDiff(f) == \E k \in 1..Len(DiffText(f)) : DiffText(f)[k] \notin WS

\* The places of token t in text s, and the tokens that follow them, in order.
Places(s, t) == {k \in 1..Len(s) : s[k] = t}

Following(s, t) ==
    LET P == Places(s, t)
    IN  [n \in 1..Cardinality(P) |->
            s[(CHOOSE q \in P : Cardinality({r \in P : r <= q}) = n) + 1]]

\* The parts of a block: <<"\n", "### ", name, "\n", fence, "\n">>, the body,
\* <<"\n", fence>>.
BlockName(b) == b[3]

BlockBody(b) == SubSeq(b, 7, Len(b) - 2)

\* The first n listed files that have a diff, in listing order.
WithDiff(n) == SelectSeq(SubSeq(Listed, 1, n), HasDiff)

\* C1: whatever the listing and the diffs, patch_summary gathers at most 10
\* blocks, the text it returns holds at most 10 block headers, and the body
\* of each block is the first 1500 characters of the stripped diff of its
\* file, so at most 1500 characters.
C1_PatchSummaryBounded ==
    /\ Len(out) <= FileLimit
    /\ \A k \in 1..Len(out) :
          /\ Len(BlockBody(out[k])) <= DiffLimit
          /\ \E j \in 1..Len(Listed) :
                LET d == Stripped(DiffText(Listed[j]))
                IN  /\ BlockName(out[k]) = Listed[j].name
                    /\ BlockBody(out[k]) =
                          IF Len(d) > DiffLimit THEN SubSeq(d, 1, DiffLimit) ELSE d
    /\ AfterPatch =>
          /\ Cardinality(Places(patches_txt, "### ")) <= FileLimit
          /\ Cardinality(Places(patches_txt, "### ")) = Len(out)

C1_Witness ==
    /\ pc = "template"
    /\ Len(Listed) > FileLimit
    /\ Len(out) = FileLimit
    /\ \E k \in 1..Len(out) : \E j \in 1..Len(Listed) :
          /\ BlockName(out[k]) = Listed[j].name
          /\ Len(DiffText(Listed[j])) > DiffLimit + 1
          /\ Len(BlockBody(out[k])) = DiffLimit

\* C2: the blocks are those of the files, among the first min(10, number of
\* listed files) entries of the listing, whose diff is not empty, one block
\* each, in listing order: a file without a diff gives no block and no later
\* file takes its place.
C2_PositionalPrefix ==
    /\ pc = "diff" =>
          [k \in 1..Len(out) |-> BlockName(out[k])]
             = [k \in 1..Len(WithDiff(idx)) |-> WithDiff(idx)[k].name]
    /\ AfterPatch =>
          LET n == Min(FileLimit, Len(Listed))
          IN  /\ idx = n
              /\ Following(patches_txt, "### ")
                    = [k \in 1..Len(WithDiff(n)) |-> WithDiff(n)[k].name]
              /\ Len(out) = n - Cardinality({k \in 1..n : ~HasDiff(Listed[k])})

C2_Witness ==
    /\ pc = "template"
    /\ Len(Listed) > FileLimit
    /\ \E k \in 1..FileLimit : ~HasDiff(Listed[k])
    /\ HasDiff(Listed[FileLimit + 1])
    /\ Len(out) < FileLimit
\* The prompt is assembled; the write has completed.
Assembled == pc \in {"write", "print", "done"}

Written == pc \in {"print", "done"}

\* Text sub lies in text s from place i on.
At(s, i, sub) == i >= 1 /\ i + Len(sub) - 1 <= Len(s) /\ SubSeq(s, i, i + Len(sub) - 1) = sub

Occurrences(s, sub) == {i \in 1..(Len(s) - Len(sub) + 1) : SubSeq(s, i, i + Len(sub) - 1) = sub}

\* Universal newlines, by definition: the "\n" of a "\r\n" is dropped and
\* every "\r" reads "\n".
Newlines(b) ==
    LET keep == {k \in 1..Len(b) : ~(b[k] = "\n" /\ k > 1 /\ b[k - 1] = "\r")}
        nth(n) == CHOOSE q \in keep : Cardinality({r \in keep : r <= q}) = n
    IN  [n \in 1..Cardinality(keep) |-> IF b[nth(n)] = "\r" THEN "\n" ELSE b[nth(n)]]

\* The bytes of the template the priority order picks.
ChosenBytes ==
    IF env.tpl[1].exists THEN env.tpl[1].bytes
    ELSE IF env.tpl[2].exists THEN env.tpl[2].bytes
    ELSE <<"# Problema", NL, NL, "## Solucao", NL>>

\* The template lies in the prompt after the two lines of instruction and
\* the rule.
TemplatePlace == Len(Lit0)

\* C3 as stated: the content of the template file picked by the priority
\* order (the fallback when neither exists) lies verbatim, unmodified, in
\* the prompt written to pr_prompt.txt.
C3_TemplateVerbatim ==
    pc = "done" => Occurrences(fileOut.content, ChosenBytes) # {}

\* C3, amended: .pull_request_template.md is used when it exists (also when
\* empty, also when the other exists), else .github/pull_request_template.md
\* when it exists, else the fallback; the text of the chosen file as
\* read_text() decodes it, with every "\r\n" and lone "\r" read as "\n", lies
\* in the prompt written to pr_prompt.txt, between the rule before it and
\* the rule after it.
C3_TemplateChosen ==
    /\ Assembled =>
          /\ template = Newlines(ChosenBytes)
          /\ At(prompt, TemplatePlace, template)
          /\ At(prompt, TemplatePlace - 5, <<NL, NL, "---", NL, NL>>)
          /\ At(prompt, TemplatePlace + Len(template), <<NL, NL, "---", NL, NL>>)
    /\ Written => At(fileOut.content, TemplatePlace, Newlines(ChosenBytes))

C3_Witness ==
    /\ pc = "done"
    /\ env.tpl[1].exists /\ env.tpl[2].exists
    /\ env.tpl[1].bytes = <<>>
    /\ env.tpl[2].bytes # <<>>

\* An invocation has completed with a non-zero exit status.
LastFailed == calls # <<>> /\ lastRes.started /\ lastRes.rc # 0

Terminal == pc \in {"done", "failed"}

\* C5: when git is not on the path, or fails, the run degrades silently:
\* no fault ends the process, the branch, the commit list, the file list
\* and the patch summary are the empty string, and main() reaches the write
\* of pr_prompt.txt and prints the confirmation line.  (Stated for the runs
\* in which git writes nothing to its standard output.)
C5_DegradesSilently ==
    (env.git \in {"absent", "noRepo"} /\ pc # "idle") =>
        /\ fault = "none"
        /\ head = <<>> /\ commits_txt = <<>> /\ files_txt = <<>> /\ patches_txt = <<>>
        /\ Terminal => pc = "done" /\ wrote /\ printed = 1

\* The read of the template picked by the priority order fails.
TemplateReadFails ==
    LET first == env.tpl[1]
        second == env.tpl[2]
        bad(f) == ~f.readable \/ BadByte \in {f.bytes[k] : k \in 1..Len(f.bytes)}
    IN  IF first.exists THEN bad(first) ELSE second.exists /\ bad(second)

C7_Overwrites ==
    pc = "done" =>
        /\ fileOut.exists
        /\ fileOut.content = prompt
        /\ prompt = Prompt(template, env.dir, head, base, commits_txt, files_txt, patches_txt)

C7_Witness ==
    /\ pc = "done"
    /\ prevDone
    /\ fileAtStart.exists
    /\ Len(fileAtStart.content) > Len(prompt)
    /\ fileOut.content = prompt
\* A run like the example: commits with subjects, one changed file with a
\* short diff, a template file with text.
LikeExample ==
    /\ env.git = "ok"
    /\ Len(env.commits) = 2 /\ env.commits[1] # <<>> /\ env.commits[2] # <<>>
    /\ Len(env.listing) = 1 /\ env.listing[1].kind = "s"
    /\ env.tpl[1].exists /\ env.tpl[1].bytes # <<>>

\* C8 as stated: in the prompt the two commit lines come first, then the
\* name of the changed file, then the text of the diff, then the template.
C8_TemplateLast ==
    (pc = "done" /\ LikeExample) =>
        \E c1 \in Occurrences(prompt, <<"-", " ">> \o env.commits[1]) :
        \E c2 \in Occurrences(prompt, <<"-", " ">> \o env.commits[2]) :
        \E f \in Occurrences(prompt, <<env.listing[1].name>>) :
        \E d \in Occurrences(prompt, Stripped(DiffText(env.listing[1]))) :
        \E t \in Occurrences(prompt, template) :
            c1 < c2 /\ c2 < f /\ f < d /\ d < t

\* C8, amended: in the prompt the template comes first, then the commit
\* list (its lines in git's order), then the list of changed files, then
\* the patch summary (the name and the stripped diff of each file): each part
\* begins after the part before it has ended.
C8_TemplateFirst ==
    Assembled =>
        LET c == Places(prompt, "Commits:")
            f == Places(prompt, "Arquivos alterados:")
            d == Places(prompt, "Patches (exemplo):")
        IN  /\ Cardinality(c) = 1 /\ Cardinality(f) = 1 /\ Cardinality(d) = 1
            /\ \E pc_ \in c : \E pf \in f : \E pd \in d :
                  /\ At(prompt, TemplatePlace, template)
                  /\ TemplatePlace + Len(template) <= pc_
                  /\ At(prompt, pc_ + 2, commits_txt)
                  /\ pc_ + 2 + Len(commits_txt) <= pf
                  /\ At(prompt, pf + 2, files_txt)
                  /\ pf + 2 + Len(files_txt) <= pd
                  /\ At(prompt, pd + 2, patches_txt)
            /\ LikeExample =>
                  LET T  == Occurrences(prompt, template)
                      C1 == Occurrences(prompt, <<"-", " ">> \o env.commits[1])
                      C2 == Occurrences(prompt, <<"-", " ">> \o env.commits[2])
                      F  == Occurrences(prompt, <<env.listing[1].name>>)
                      D  == Occurrences(prompt, Stripped(DiffText(env.listing[1])))
                  IN  \E t \in T : \E c1 \in C1 : \E c2 \in C2 : \E fn \in F : \E df \in D :
                          t < c1 /\ c1 < c2 /\ c2 < fn /\ fn < df

C8_Witness ==
    /\ pc = "done"
    /\ LikeExample
    /\ env.commits = <<<<"Fix bug">>, <<"Add test">>>>
    /\ template = <<"# Problema", NL, NL, "## Solucao", NL>>

\* commits() has returned, git having listed the commits.
AfterLog == env.git = "ok" /\ Len(calls) >= 2

BulletLine(subject) == <<"-", " ">> \o subject

\* C9 as stated: the commit list holds one line per commit git reports, in
\* git's order, each line "- <subject>"; no line is lost, doubled or changed
\* by the stripping.
C9_OneBulletPerCommit ==
    AfterLog =>
        splitlines(commits_txt) = [k \in 1..Len(env.commits) |-> BulletLine(env.commits[k])]

\* C9, amended: the commit list holds one line per commit git reports, in
\* git's order, none lost and none doubled; each line is "- <subject>",
\* but for the last, which loses its trailing whitespace: the line of a last
\* commit with an empty subject is "-".
C9_OneLinePerCommit ==
    AfterLog =>
        LET n == Len(env.commits)
            lines == splitlines(commits_txt)
        IN  /\ Len(lines) = n
            /\ \A k \in 1..(n - 1) : lines[k] = BulletLine(env.commits[k])
            /\ n > 0 => lines[n] = IF env.commits[n] = <<>> THEN <<"-">>
                                   ELSE BulletLine(env.commits[n])

C9_Witness ==
    /\ AfterLog
    /\ Len(env.commits) = 2
    /\ env.commits[2] = <<>>
    /\ Len(splitlines(commits_txt)) = 2

\* The commands of a run, in order, for a listing of the given files.
ExpectedCalls(l) ==
    <<<<"rev-parse">>, <<"log">>, <<"name-status">>, <<"name-only">>>>
    \o [k \in 1..Min(Len(l), FileLimit) |-> <<"diff", <<l[k].name>>>>]

IsPrefix(a, b) == Len(a) <= Len(b) /\ a = SubSeq(b, 1, Len(a))

\* The order and the number of the invocations.
CallsInOrder ==
    /\ IsPrefix(calls, ExpectedCalls(Listed))
    /\ Len(calls) <= 4 + Min(Len(Listed), FileLimit)
    /\ pc \in {"template", "assemble", "write", "print", "done"} => calls = ExpectedCalls(Listed)
    /\ (fault \in {"read", "write"} \/ template # <<>> \/ prompt # <<>> \/ wrote)
          => calls = ExpectedCalls(Listed)
    /\ pc = "rev_parse" => calls = <<>>
    /\ pc = "log" => Len(calls) = 1
    /\ pc = "name_status" => Len(calls) = 2
    /\ pc = "name_only" => Len(calls) = 3
    /\ pc = "diff" => Len(calls) = 4 + idx

\* C10: every command returning, a run ends, in success or in a fault,
\* after at most 4 + min(k, 10) invocations, k the number of lines of the
\* listing; the invocations follow one another in the order rev-parse, log,
\* diff --name-status, diff --name-only, then one diff per file for the
\* first min(k, 10) files of the listing, and the template is read and the
\* file written only after the last of them has returned.
C10_TerminatesInOrder ==
    /\ []CallsInOrder
    /\ [](pc \notin {"idle", "done", "failed"} => <>Terminal)

C10_Witness ==
    /\ pc = "done"
    /\ Len(Listed) > FileLimit
    /\ Len(calls) = 4 + FileLimit

====
